---- MODULE Spec2Model ----
(***************************************************************************)
(* kultscraper: the worker pool of internal/lib/work/work.go and the       *)
(* scraping task of internal/scraper/scraper.go (the current RodScraper,   *)
(* lines 139-367 of that file).                                            *)
(*                                                                         *)
(* Spec        the Pool: Start, Stop, AddTask, the worker goroutines and   *)
(*             the consumer of Results(), every step of every goroutine    *)
(*             interleaved.  A worker's call of task.Execute() is          *)
(*             TaskToScrape.Execute applied to one of the returns Scrape   *)
(*             has.                                                        *)
(* SpecScraper concurrent TaskToScrape.Execute calls on one RodScraper:    *)
(*             Scrape step by step (context check, getPage, Navigate,      *)
(*             WaitLoad, the field and element loops, releasePage), the    *)
(*             page pool and its mutex, and each call's context expiring   *)
(*             at any moment.                                              *)
(***************************************************************************)
EXTENDS Naturals, Sequences, FiniteSets

\* ------------------------------------------------------------------ bounds
MaxWorkers == 2
MaxQueue == 2
NumTasks == 2
MaxStarts == 2
NumStoppers == 2
MaxPages == 2
MaxPageIds == 2
MaxSaves == 3

Tasks == 1..NumTasks
Stoppers == 1..NumStoppers
PageIds == 1..MaxPageIds

\* ------------------------------------------------------------ result values
\* The error values the code returns; NoErr is Go's nil error.
NoErr == "nil"
ErrContextCancelled == "scraping cancelled due to context timeout"
ErrCtx == "context canceled"
ErrCapacity == "maximum number of active pages reached"
ErrPool == "failed to get page from pool"
ErrNavigate == "navigate failed"
ErrWaitLoad == "wait load failed"
ErrNotStarted == "pool not started"
ErrAlreadyStarted == "pool already started"

\* A *models.ScrapingResult: nil, or a result whose Data map is the set of
\* its <<key, value>> pairs.
NilResult == [isNil |-> TRUE, data |-> {}]
\* The placeholder of a call that has not returned yet.
NotReturned == [res |-> NilResult, err |-> "not returned"]
NewScrapingResultEmpty(data) == [isNil |-> FALSE, data |-> {}]
NewScrapingResult(data) == [isNil |-> FALSE, data |-> data]

\* The keys of a Data map.
Keys(data) == {kv[1] : kv \in data}

VARIABLES
    \* ---- work.Pool
    numWorkers,     \* Pool.numWorkers
    capacity,       \* cap(Pool.tasks) = cap(Pool.results) = taskChannelSize
    started,        \* Pool.started
    mu,             \* Pool.mu: "free", or who holds it
    pctx,           \* Pool.ctx / Pool.cancel: the generation of the pair
    cancelled,      \* the generations whose cancel func has been called
    runCancelled,   \* the parent context given to Start is cancelled
    tasks,          \* Pool.tasks: the buffered tasks, oldest first
    tasksClosed,    \* close(p.tasks) has happened
    results,        \* Pool.results: the buffered results, oldest first
    resultsClosed,  \* close(p.results) has happened
    wg,             \* Pool.wg: the WaitGroup counter
    panicked,       \* "no", or the runtime panic that ended the process
    \* ---- goroutines
    idle,           \* worker goroutines waiting at the first select
    working,        \* task -> "exec", "send": where the worker that has it is; "none"
    exited,         \* worker goroutines that have returned
    startPc,        \* the Start call in progress: "idle" or "spawn"
    spawned,        \* workers launched by the Start call in progress
    startCalls,     \* Start calls that returned nil so far
    startErrs,      \* Start calls that returned an error so far
    spc,            \* Stop caller -> "idle","cancel","closeTasks","wait","closeResults","returned","noop"
    apc,            \* AddTask caller of task t -> "idle","select","nil","err"
    \* ---- what happened to each task
    scrapeRet,      \* task -> what Scrape returned to Execute
    execRet,        \* task -> what Execute returned to the worker
    onErrors,       \* task -> number of OnError calls
    sent,           \* task -> number of sends of its result on Pool.results
    dropped,        \* tasks whose result the worker abandoned at the send
    consumed,       \* the results the consumer received
    sawClosed,      \* the consumer saw Pool.results closed
    closes,         \* [tasks |-> n, results |-> m]: close() calls executed
    stopRaced,      \* since the last Start: an AddTask call was at its select
                    \* when a Stop call began stopping
    \* ---- scraper.RodScraper
    maxPageCount,   \* RodScraper.maxPageCount
    activePages,    \* RodScraper.activePages
    smu,            \* RodScraper.mu: 0 (free), or the task whose call holds it
    freePages,      \* the pages RodScraper.pagePool holds
    pagesCreated,   \* pages stealth.Page has created so far
    \* ---- one Execute call per task, each on its own goroutine
    desc,           \* task -> its ScraperTask.Selectors, a set of <<key, selector>>
    ctxDone,        \* task -> the context Execute passes to Scrape is done
    pc,             \* task -> where its Execute/Scrape call is
    page,           \* task -> the page its call holds (0: none)
    data,           \* task -> the data map built so far
    todo,           \* task -> the keys the range loop has not visited
    cur,            \* task -> the key of the current iteration
    elems,          \* task -> the matched elements not yet visited
    texts,          \* task -> the texts collected for the current key
    hist,           \* task -> what the call met: cancellations seen, releases
    \* ---- db.MongoScraperRepo and its collection
    docs,           \* the documents of the collection
    clock,          \* what time.Now() returns next
    nextId,         \* ObjectIDs primitive.NewObjectID() has handed out
    saves,          \* SaveResult calls that have returned
    svPc,           \* the SaveResult call in progress: "idle","update","insert"
    svArg,          \* its argument *models.ScrapingResult
    svExisting,     \* the document its FindOne decoded
    svRet           \* what the last SaveResult call returned: an id, or "error"

vars == <<numWorkers, capacity, started, mu, pctx, cancelled, runCancelled,
          tasks, tasksClosed, results, resultsClosed, wg, panicked,
          idle, working, exited, startPc, spawned, startCalls, startErrs, spc, apc,
          scrapeRet, execRet, onErrors, sent, dropped, consumed, sawClosed,
          closes, stopRaced, maxPageCount, activePages, smu, freePages, pagesCreated,
          desc, ctxDone, pc, page, data, todo, cur, elems, texts, hist,
          docs, clock, nextId, saves, svPc, svArg, svExisting, svRet>>

\* The repository's state; the pool's and the scraper's steps leave it alone.
storeVars == <<docs, clock, nextId, saves, svPc, svArg, svExisting, svRet>>

poolVars == <<numWorkers, capacity, started, mu, pctx, cancelled,
              tasks, tasksClosed, results, resultsClosed, wg>>
scrVars == <<maxPageCount, activePages, smu, freePages, pagesCreated,
             desc, ctxDone, pc, page, data, todo, cur, elems, texts, hist,
             storeVars>>
bookVars == <<scrapeRet, execRet, onErrors, sent, dropped, consumed, sawClosed>>
Accepted == {t \in Tasks : apc[t] = "nil"}

\* ctx.Done() of the pool context of generation g is ready.  Generation 0
\* is the constructor's WithCancel(Background); the later ones are Start's
\* WithCancel(parentCtx).
CtxDone(g) == g \in cancelled \/ (g > 0 /\ runCancelled)

Running == panicked = "no"

\* ------------------------------------------------------------------- Init
\* NewPoolWithLogger(numWorkers, taskChannelSize): both > 0.
NewPoolWithLogger ==
    /\ numWorkers \in 1..MaxWorkers
    /\ capacity \in 1..MaxQueue
    /\ started = FALSE
    /\ mu = "free"
    /\ pctx = 0
    /\ cancelled = {}
    /\ tasks = <<>>
    /\ tasksClosed = FALSE
    /\ results = <<>>
    /\ resultsClosed = FALSE
    /\ wg = 0

\* The descriptors (config.ScraperTask.Selectors) of the tasks file: the
\* odd tasks have two selectors, the even ones a selector and a key with
\* the empty selector.
TaskSelectors(t) ==
    IF t % 2 = 1
    THEN {<<"title", "h1">>, <<"price", "span.price">>}
    ELSE {<<"title", "h1">>, <<"note", "">>}

\* The page the browser shows: the elements a selector matches, in match
\* order, and the text of each element.
PageElements(selector) ==
    IF selector = "h1" THEN <<"e1">>
    ELSE IF selector = "span.price" THEN <<"e2", "e3">>
    ELSE <<>>
ElementText(e) ==
    IF e = "e1" THEN <<"Hello">>
    ELSE IF e = "e2" THEN <<"9">>
    ELSE <<"EUR">>

\* NewRodScraper(browser, logger, maxPages) and the calls not yet made.
NewRodScraper ==
    /\ activePages = 0
    /\ smu = 0
    /\ freePages = {}
    /\ pagesCreated = 0
    /\ ctxDone = [t \in Tasks |-> FALSE]
    /\ pc = [t \in Tasks |-> "idle"]
    /\ page = [t \in Tasks |-> 0]
    /\ data = [t \in Tasks |-> {}]
    /\ todo = [t \in Tasks |-> {}]
    /\ cur = [t \in Tasks |-> ""]
    /\ elems = [t \in Tasks |-> <<>>]
    /\ texts = [t \in Tasks |-> <<>>]
    /\ hist = [t \in Tasks |-> [observed |-> FALSE, gets |-> 0, releases |-> 0]]

\* The (URL, Type, Name, Data, Metadata) values of the results saved.
URLs == {"u1", "u2"}
Types == {"t1", "t2"}
Names == {"n1", "n2"}
Datas == {"d1", "d2"}
Metas == {"m1"}
SaveArgs == [url : URLs, type : Types, name : Names, data : Datas, meta : Metas]

\* No result / no document yet, and a SaveResult return (id, err).
NoArg == [url |-> "", type |-> "", name |-> "", data |-> "", meta |-> ""]
NoDoc == [id |-> 0, url |-> "", type |-> "", name |-> "", data |-> "",
          meta |-> "", created |-> 0, updated |-> 0]
SaveReturn(id, err) == [id |-> id, err |-> err]
ErrSave == "save failed"

\* NewMongoScraperRepo(client, dbname, collectionName): an empty collection
\* with the unique index on (type, url), and no SaveResult call yet.
NewMongoScraperRepo ==
    /\ docs = {}
    /\ clock = 1
    /\ nextId = 0
    /\ saves = 0
    /\ svPc = "idle"
    /\ svArg = NoArg
    /\ svExisting = NoDoc
    /\ svRet = SaveReturn(0, "not returned")

Init ==
    /\ NewPoolWithLogger
    /\ NewRodScraper
    /\ NewMongoScraperRepo
    /\ maxPageCount = MaxPages
    /\ desc = [t \in Tasks |-> TaskSelectors(t)]
    /\ runCancelled = FALSE
    /\ panicked = "no"
    /\ idle = 0
    /\ working = [t \in Tasks |-> "none"]
    /\ exited = 0
    /\ startPc = "idle"
    /\ spawned = 0
    /\ startCalls = 0
    /\ startErrs = 0
    /\ spc = [s \in Stoppers |-> "idle"]
    /\ apc = [t \in Tasks |-> "idle"]
    /\ scrapeRet = [t \in Tasks |-> NotReturned]
    /\ execRet = [t \in Tasks |-> NotReturned]
    /\ onErrors = [t \in Tasks |-> 0]
    /\ sent = [t \in Tasks |-> 0]
    /\ dropped = {}
    /\ consumed = {}
    /\ sawClosed = FALSE
    /\ closes = [tasks |-> 0, results |-> 0]
    /\ stopRaced = FALSE

\* ------------------------------------------------------------ the Executor
\* What RodScraper.Scrape hands back to Execute, one value per shape of its
\* return statements: (nil, err) before the field loop, (partial, ctx.Err())
\* from inside the loop, (result, nil) at the end.
ScrapeReturns ==
    { [res |-> NilResult, err |-> ErrContextCancelled],
      [res |-> NewScrapingResult({<<"title", "Hello">>}), err |-> ErrCtx],
      [res |-> NewScrapingResult({<<"title", "Hello">>, <<"price", "9">>}),
       err |-> NoErr] }

\* TaskToScrape.Execute: res, err := Scrape(...); if err != nil, return
\* nil, err; else return res, nil.
Execute(sr) ==
    IF sr.err # NoErr
    THEN [res |-> NilResult, err |-> sr.err]
    ELSE [res |-> sr.res, err |-> NoErr]

\* ------------------------------------------------------------------ Start
\* Start's guard under p.mu: "if p.started { return error }".
StartRefusedNever == FALSE
StartRefused == started

\* Start, entered: takes p.mu; on a started pool returns the error, else
\* replaces p.ctx, p.cancel by a new pair derived from parentCtx.
StartBegin ==
    /\ Running
    /\ startPc = "idle"
    /\ mu = "free"
    /\ startCalls + startErrs < MaxStarts
    /\ IF StartRefused
       THEN /\ startErrs' = startErrs + 1
            /\ UNCHANGED <<mu, pctx, startPc, spawned, stopRaced>>
       ELSE /\ mu' = "start"
            /\ pctx' = startCalls + 1
            /\ startPc' = "spawn"
            /\ spawned' = 0
            /\ stopRaced' = FALSE
            /\ UNCHANGED startErrs
    /\ UNCHANGED scrVars
    /\ UNCHANGED <<numWorkers, capacity, started, cancelled, runCancelled, tasks,
                   tasksClosed, results, resultsClosed, wg, panicked, idle, working, exited, startCalls, spc, apc, closes>>
    /\ UNCHANGED bookVars

\* One turn of Start's loop: p.wg.Add(1); go p.worker(i).
StartSpawn ==
    /\ Running
    /\ startPc = "spawn"
    /\ spawned < numWorkers
    /\ wg' = wg + 1
    /\ idle' = idle + 1
    /\ spawned' = spawned + 1
    /\ UNCHANGED <<scrVars, stopRaced>>
    /\ UNCHANGED <<numWorkers, capacity, started, mu, pctx, cancelled, runCancelled,
                   tasks, tasksClosed, results, resultsClosed, panicked, working, exited,
                   startPc, startCalls, startErrs, spc, apc, closes>>
    /\ UNCHANGED bookVars

\* Start's end: p.started = true; return nil (the deferred Unlock).
StartEnd ==
    /\ Running
    /\ startPc = "spawn"
    /\ spawned = numWorkers
    /\ started' = TRUE
    /\ mu' = "free"
    /\ startPc' = "idle"
    /\ startCalls' = startCalls + 1
    /\ UNCHANGED <<scrVars, stopRaced>>
    /\ UNCHANGED <<numWorkers, capacity, pctx, cancelled, runCancelled, tasks,
                   tasksClosed, results, resultsClosed, wg, panicked, idle, working, exited, spawned, startErrs, spc, apc, closes>>
    /\ UNCHANGED bookVars

\* ------------------------------------------------------------------- Stop
\* Stop's guard under p.mu: "if !p.started { return }".
StopReturnsEarly == ~started

\* Stop, entered: lock; return if not started, else p.started = false; unlock.
\* The callers of Stop are numbered in the order of their calls.
StopCheck(s) ==
    /\ Running
    /\ spc[s] = "idle"
    /\ \A r \in Stoppers : r < s => spc[r] # "idle"
    /\ mu = "free"
    /\ IF StopReturnsEarly
       THEN /\ spc' = [spc EXCEPT ![s] = "noop"]
            /\ UNCHANGED <<started, stopRaced>>
       ELSE /\ spc' = [spc EXCEPT ![s] = "cancel"]
            /\ started' = FALSE
            /\ stopRaced' = (stopRaced \/ \E t \in Tasks : apc[t] = "select")
    /\ UNCHANGED scrVars
    /\ UNCHANGED <<numWorkers, capacity, mu, pctx, cancelled, runCancelled, tasks,
                   tasksClosed, results, resultsClosed, wg, panicked, idle, working, exited, startPc, spawned, startCalls, startErrs, apc, closes>>
    /\ UNCHANGED bookVars

\* p.cancel(): cancels the context pair the field holds now.
StopCancel(s) ==
    /\ Running
    /\ spc[s] = "cancel"
    /\ cancelled' = cancelled \cup {pctx}
    /\ spc' = [spc EXCEPT ![s] = "closeTasks"]
    /\ UNCHANGED <<scrVars, stopRaced>>
    /\ UNCHANGED <<numWorkers, capacity, started, mu, pctx, runCancelled, tasks,
                   tasksClosed, results, resultsClosed, wg, panicked, idle, working, exited, startPc, spawned, startCalls, startErrs, apc, closes>>
    /\ UNCHANGED bookVars

\* close(p.tasks): closing a closed channel panics.
StopCloseTasks(s) ==
    /\ Running
    /\ spc[s] = "closeTasks"
    /\ IF tasksClosed
       THEN /\ panicked' = "close of closed channel: tasks"
            /\ UNCHANGED <<tasksClosed, spc>>
       ELSE /\ tasksClosed' = TRUE
            /\ spc' = [spc EXCEPT ![s] = "wait"]
            /\ UNCHANGED panicked
    /\ closes' = [closes EXCEPT !.tasks = @ + 1]
    /\ UNCHANGED <<scrVars, stopRaced>>
    /\ UNCHANGED <<numWorkers, capacity, started, mu, pctx, cancelled, runCancelled,
                   tasks, results, resultsClosed, wg, idle, working, exited, startPc, spawned, startCalls, startErrs, apc>>
    /\ UNCHANGED bookVars

\* p.wg.Wait() returns when the counter is zero.
WaitReturns == wg = 0

StopWait(s) ==
    /\ Running
    /\ spc[s] = "wait"
    /\ WaitReturns
    /\ spc' = [spc EXCEPT ![s] = "closeResults"]
    /\ UNCHANGED <<scrVars, stopRaced>>
    /\ UNCHANGED <<numWorkers, capacity, started, mu, pctx, cancelled, runCancelled,
                   tasks, tasksClosed, results, resultsClosed, wg, panicked, idle, working, exited, startPc, spawned, startCalls, startErrs, apc, closes>>
    /\ UNCHANGED bookVars

\* close(p.results); Stop returns.
StopCloseResults(s) ==
    /\ Running
    /\ spc[s] = "closeResults"
    /\ IF resultsClosed
       THEN /\ panicked' = "close of closed channel: results"
            /\ UNCHANGED <<resultsClosed, spc>>
       ELSE /\ resultsClosed' = TRUE
            /\ spc' = [spc EXCEPT ![s] = "returned"]
            /\ UNCHANGED panicked
    /\ closes' = [closes EXCEPT !.results = @ + 1]
    /\ UNCHANGED <<scrVars, stopRaced>>
    /\ UNCHANGED <<numWorkers, capacity, started, mu, pctx, cancelled, runCancelled,
                   tasks, tasksClosed, results, wg, idle, working, exited, startPc, spawned, startCalls, startErrs, apc>>
    /\ UNCHANGED bookVars

\* ---------------------------------------------------------------- AddTask
\* AddTask's guard under p.mu: "if !p.started { return error }".
AddTaskRefusedNever == FALSE
AddTaskRefused == ~started

\* AddTask, entered: lock; "if !p.started { return error }"; unlock.
\* The tasks are numbered in the order of their AddTask calls.
AddTaskCheck(t) ==
    /\ Running
    /\ apc[t] = "idle"
    /\ \A u \in Tasks : u < t => apc[u] # "idle"
    /\ mu = "free"
    /\ apc' = [apc EXCEPT ![t] = IF AddTaskRefused THEN "err" ELSE "select"]
    /\ UNCHANGED <<scrVars, stopRaced>>
    /\ UNCHANGED <<numWorkers, capacity, started, mu, pctx, cancelled, runCancelled,
                   tasks, tasksClosed, results, resultsClosed, wg, panicked, idle, working, exited, startPc, spawned, startCalls, startErrs, spc, closes>>
    /\ UNCHANGED bookVars

\* select case p.tasks <- t: return nil.  A send on a closed channel panics.
AddTaskSend(t) ==
    /\ Running
    /\ apc[t] = "select"
    /\ IF tasksClosed
       THEN /\ panicked' = "send on closed channel: tasks"
            /\ UNCHANGED <<tasks, apc>>
       ELSE /\ Len(tasks) < capacity
            /\ tasks' = Append(tasks, t)
            /\ apc' = [apc EXCEPT ![t] = "nil"]
            /\ UNCHANGED panicked
    /\ UNCHANGED <<scrVars, stopRaced>>
    /\ UNCHANGED <<numWorkers, capacity, started, mu, pctx, cancelled, runCancelled,
                   tasksClosed, results, resultsClosed, wg, idle, working, exited, startPc, spawned, startCalls, startErrs, spc, closes>>
    /\ UNCHANGED bookVars

\* An AddTask that returns the context's error and leaves its task in the
\* queue all the same.
AddTaskCtxDoneEnqueues(t) ==
    /\ Running
    /\ apc[t] = "select"
    /\ CtxDone(pctx)
    /\ Len(tasks) < capacity
    /\ tasks' = Append(tasks, t)
    /\ apc' = [apc EXCEPT ![t] = "err"]
    /\ UNCHANGED <<scrVars, stopRaced>>
    /\ UNCHANGED <<numWorkers, capacity, started, mu, pctx, cancelled, runCancelled,
                   tasksClosed, results, resultsClosed, wg, panicked, idle, working, exited, startPc, spawned, startCalls, startErrs, spc, closes>>
    /\ UNCHANGED bookVars

\* select case <-p.ctx.Done(): return p.ctx.Err().
AddTaskCtxDone(t) ==
    /\ Running
    /\ apc[t] = "select"
    /\ CtxDone(pctx)
    /\ apc' = [apc EXCEPT ![t] = "err"]
    /\ UNCHANGED <<scrVars, stopRaced>>
    /\ UNCHANGED <<numWorkers, capacity, started, mu, pctx, cancelled, runCancelled,
                   tasks, tasksClosed, results, resultsClosed, wg, panicked, idle, working, exited, startPc, spawned, startCalls, startErrs, spc, closes>>
    /\ UNCHANGED bookVars

\* ----------------------------------------------------------------- worker
\* The worker goroutines run the same code and differ only in the id they
\* log: idle counts those at the first select, working[t] tells where the
\* one that received task t is.
\* The deferred p.wg.Done() of a worker that returns.
WorkerExit ==
    /\ exited' = exited + 1
    /\ wg' = wg - 1

\* select case <-p.ctx.Done(): return.
WorkerCtxDone ==
    /\ Running
    /\ idle > 0
    /\ CtxDone(pctx)
    /\ idle' = idle - 1
    /\ WorkerExit
    /\ UNCHANGED <<scrVars, stopRaced>>
    /\ UNCHANGED <<numWorkers, capacity, started, mu, pctx, cancelled, runCancelled,
                   tasks, tasksClosed, results, resultsClosed, panicked, working,
                   startPc, spawned, startCalls, startErrs, spc, apc, closes>>
    /\ UNCHANGED bookVars

\* select case task, ok := <-p.tasks with ok: the worker has the task.
WorkerReceive ==
    /\ Running
    /\ idle > 0
    /\ tasks # <<>>
    /\ idle' = idle - 1
    /\ working' = [working EXCEPT ![Head(tasks)] = "exec"]
    /\ tasks' = Tail(tasks)
    /\ UNCHANGED <<scrVars, stopRaced>>
    /\ UNCHANGED <<numWorkers, capacity, started, mu, pctx, cancelled, runCancelled,
                   tasksClosed, results, resultsClosed, wg, panicked, exited,
                   startPc, spawned, startCalls, startErrs, spc, apc, closes>>
    /\ UNCHANGED bookVars

\* select case task, ok := <-p.tasks with !ok (closed and drained): return.
WorkerTasksClosed ==
    /\ Running
    /\ idle > 0
    /\ tasks = <<>>
    /\ tasksClosed
    /\ idle' = idle - 1
    /\ WorkerExit
    /\ UNCHANGED <<scrVars, stopRaced>>
    /\ UNCHANGED <<numWorkers, capacity, started, mu, pctx, cancelled, runCancelled,
                   tasks, tasksClosed, results, resultsClosed, panicked, working,
                   startPc, spawned, startCalls, startErrs, spc, apc, closes>>
    /\ UNCHANGED bookVars

\* The worker's test of what Execute returned: "if err != nil".
ExecuteFailedNever(er) == FALSE
ExecuteFailed(er) == er.err # NoErr

\* res, err := task.Execute(); if err != nil { task.OnError(err); continue }.
WorkerExecute(t) ==
    /\ Running
    /\ working[t] = "exec"
    /\ \E sr \in ScrapeReturns :
         LET er == Execute(sr)
         IN /\ scrapeRet' = [scrapeRet EXCEPT ![t] = sr]
            /\ execRet' = [execRet EXCEPT ![t] = er]
            /\ IF ExecuteFailed(er)
               THEN /\ onErrors' = [onErrors EXCEPT ![t] = @ + 1]
                    /\ working' = [working EXCEPT ![t] = "none"]
                    /\ idle' = idle + 1
               ELSE /\ working' = [working EXCEPT ![t] = "send"]
                    /\ UNCHANGED <<onErrors, idle>>
    /\ UNCHANGED <<scrVars, stopRaced>>
    /\ UNCHANGED <<numWorkers, capacity, started, mu, pctx, cancelled, runCancelled,
                   tasks, tasksClosed, results, resultsClosed, wg, panicked, exited,
                   startPc, spawned, startCalls, startErrs, spc, apc, closes>>
    /\ UNCHANGED <<sent, dropped, consumed, sawClosed>>

\* select case p.results <- res.  A send on a closed channel panics.
WorkerSend(t) ==
    /\ Running
    /\ working[t] = "send"
    /\ IF resultsClosed
       THEN /\ panicked' = "send on closed channel: results"
            /\ UNCHANGED <<results, sent, working, idle>>
       ELSE /\ Len(results) < capacity
            /\ results' = Append(results, [task |-> t, res |-> execRet[t].res])
            /\ sent' = [sent EXCEPT ![t] = @ + 1]
            /\ working' = [working EXCEPT ![t] = "none"]
            /\ idle' = idle + 1
            /\ UNCHANGED panicked
    /\ UNCHANGED <<scrVars, stopRaced>>
    /\ UNCHANGED <<numWorkers, capacity, started, mu, pctx, cancelled, runCancelled,
                   tasks, tasksClosed, resultsClosed, wg, exited,
                   startPc, spawned, startCalls, startErrs, spc, apc, closes>>
    /\ UNCHANGED <<scrapeRet, execRet, onErrors, dropped, consumed, sawClosed>>

\* The worker's second select gives the send up on "case <-p.ctx.Done()".
SendGivenUpWhenFull == CtxDone(pctx) \/ Len(results) >= capacity
SendGivenUp == CtxDone(pctx)

\* select case <-p.ctx.Done() while sending: return, the result is not sent.
WorkerSendCtxDone(t) ==
    /\ Running
    /\ working[t] = "send"
    /\ SendGivenUp
    /\ dropped' = dropped \cup {t}
    /\ working' = [working EXCEPT ![t] = "none"]
    /\ WorkerExit
    /\ UNCHANGED <<scrVars, stopRaced>>
    /\ UNCHANGED <<numWorkers, capacity, started, mu, pctx, cancelled, runCancelled,
                   tasks, tasksClosed, results, resultsClosed, panicked, idle,
                   startPc, spawned, startCalls, startErrs, spc, apc, closes>>
    /\ UNCHANGED <<scrapeRet, execRet, onErrors, sent, consumed, sawClosed>>

\* --------------------------------------------------------------- consumer
\* res, ok := <-pool.Results() with ok.
Receive ==
    /\ Running
    /\ results # <<>>
    /\ consumed' = consumed \cup {Head(results)}
    /\ results' = Tail(results)
    /\ UNCHANGED <<scrVars, stopRaced>>
    /\ UNCHANGED <<numWorkers, capacity, started, mu, pctx, cancelled, runCancelled,
                   tasks, tasksClosed, resultsClosed, wg, panicked, idle, working, exited, startPc, spawned, startCalls, startErrs, spc, apc, closes>>
    /\ UNCHANGED <<scrapeRet, execRet, onErrors, sent, dropped, sawClosed>>

\* res, ok := <-pool.Results() with !ok: the channel is closed and drained.
ReceiveClosed ==
    /\ Running
    /\ results = <<>>
    /\ resultsClosed
    /\ ~sawClosed
    /\ sawClosed' = TRUE
    /\ UNCHANGED <<scrVars, stopRaced>>
    /\ UNCHANGED <<numWorkers, capacity, started, mu, pctx, cancelled, runCancelled,
                   tasks, tasksClosed, results, resultsClosed, wg, panicked, idle, working, exited, startPc, spawned, startCalls, startErrs, spc, apc, closes>>
    /\ UNCHANGED <<scrapeRet, execRet, onErrors, sent, dropped, consumed>>

\* The owner of the parent context cancels it (main's cancel()).
CancelRun ==
    /\ Running
    /\ ~runCancelled
    /\ runCancelled' = TRUE
    /\ UNCHANGED <<scrVars, stopRaced>>
    /\ UNCHANGED <<numWorkers, capacity, started, mu, pctx, cancelled,
                   tasks, tasksClosed, results, resultsClosed, wg, panicked, idle, working, exited, startPc, spawned, startCalls, startErrs, spc, apc, closes>>
    /\ UNCHANGED bookVars

\* ------------------------------------------------------------------- Next
Next ==
    \/ StartBegin
    \/ StartSpawn
    \/ StartEnd
    \/ \E s \in Stoppers : StopCheck(s)
    \/ \E s \in Stoppers : StopCancel(s)
    \/ \E s \in Stoppers : StopCloseTasks(s)
    \/ \E s \in Stoppers : StopWait(s)
    \/ \E s \in Stoppers : StopCloseResults(s)
    \/ \E t \in Tasks : AddTaskCheck(t)
    \/ \E t \in Tasks : AddTaskSend(t)
    \/ \E t \in Tasks : AddTaskCtxDone(t)
    \/ WorkerCtxDone
    \/ WorkerReceive
    \/ WorkerTasksClosed
    \/ \E t \in Tasks : WorkerExecute(t)
    \/ \E t \in Tasks : WorkerSend(t)
    \/ \E t \in Tasks : WorkerSendCtxDone(t)
    \/ Receive
    \/ ReceiveClosed
    \/ CancelRun

Spec == Init /\ [][Next]_vars

\* The goroutines the Go scheduler runs: a Start or Stop call under way goes
\* on, a select with a ready case takes one, a worker's Execute returns.
\* Nothing obliges anyone to call Start, Stop or AddTask, to cancel the run
\* or to read the results channel.
Fairness ==
    /\ WF_vars(StartSpawn)
    /\ WF_vars(StartEnd)
    /\ \A s \in Stoppers : WF_vars(StopCancel(s))
    /\ \A s \in Stoppers : WF_vars(StopCloseTasks(s))
    /\ \A s \in Stoppers : WF_vars(StopWait(s))
    /\ \A s \in Stoppers : WF_vars(StopCloseResults(s))
    /\ \A t \in Tasks : WF_vars(AddTaskSend(t) \/ AddTaskCtxDone(t))
    /\ WF_vars(WorkerCtxDone \/ WorkerReceive \/ WorkerTasksClosed)
    /\ \A t \in Tasks : WF_vars(WorkerExecute(t))
    /\ \A t \in Tasks : WF_vars(WorkerSend(t) \/ WorkerSendCtxDone(t))

FairSpec == Spec /\ Fairness

\* ================================================================ scraper
\* What the scraper's steps leave alone of the worker pool.
poolSide == <<numWorkers, capacity, started, mu, pctx, cancelled, runCancelled,
              tasks, tasksClosed, results, resultsClosed, wg, idle, working, exited,
              startPc, spawned, startCalls, startErrs, spc, apc, onErrors, sent,
              dropped, consumed, sawClosed, closes, stopRaced, storeVars>>

\* data[key] = value on a Go map.
SetData(d, key, value) == {kv \in d : kv[1] # key} \cup {<<key, value>>}

\* The selector task.Selectors[key].
Selector(t, key) == (CHOOSE kv \in desc[t] : kv[1] = key)[2]

\* strings.Join(texts, "\n"); a string is the sequence of its pieces.
RECURSIVE JoinNoSeparator(_)
JoinNoSeparator(ts) ==
    IF ts = <<>> THEN <<>> ELSE Head(ts) \o JoinNoSeparator(Tail(ts))
RECURSIVE Join(_)
Join(ts) ==
    IF ts = <<>> THEN <<>>
    ELSE IF Len(ts) = 1 THEN Head(ts)
    ELSE Head(ts) \o <<"\n">> \o Join(Tail(ts))

\* A return statement of Scrape: the pair is fixed, the deferred
\* releasePage runs next when a page was acquired.
Return(t, res, err, next) ==
    /\ scrapeRet' = [scrapeRet EXCEPT ![t] = [res |-> res, err |-> err]]
    /\ pc' = [pc EXCEPT ![t] = next]

Observe(t) == hist' = [hist EXCEPT ![t].observed = TRUE]

\* Scrape's first select finds "case <-ctx.Done()" ready.
CancelledOnEntryNever(t) == FALSE
CancelledOnEntry(t) == ctxDone[t]

\* Execute calls Scrape; Scrape's first select: "case <-ctx.Done(): return
\* nil, ErrContextCancelled; default:".
ScrapeEnter(t) ==
    /\ Running
    /\ pc[t] = "idle"
    /\ IF CancelledOnEntry(t)
       THEN /\ Return(t, NilResult, ErrContextCancelled, "returned")
            /\ Observe(t)
       ELSE /\ pc' = [pc EXCEPT ![t] = "getPage"]
            /\ UNCHANGED <<scrapeRet, hist>>
    /\ UNCHANGED <<maxPageCount, activePages, smu, freePages, pagesCreated, desc,
                   ctxDone, page, data, todo, cur, elems, texts>>
    /\ UNCHANGED <<poolSide, execRet, panicked>>

\* getPage's guard: "if r.activePages >= r.maxPageCount".
AtCapacityNever == FALSE
AtCapacityOffByOne == activePages > maxPageCount
AtCapacity == activePages >= maxPageCount

\* getPage at the ceiling: the capacity error; Scrape returns it.
GetPageRefused(t) ==
    /\ Running
    /\ pc[t] = "getPage"
    /\ smu = 0
    /\ AtCapacity
    /\ Return(t, NilResult, ErrCapacity, "returned")
    /\ UNCHANGED <<maxPageCount, activePages, smu, freePages, pagesCreated, desc,
                   ctxDone, page, data, todo, cur, elems, texts, hist>>
    /\ UNCHANGED <<poolSide, execRet, panicked>>

\* A pagePool.Get() that hands a pooled page out and leaves it in the pool.
GetPagePooledKeepsPage(t) ==
    /\ Running
    /\ pc[t] = "getPage"
    /\ smu = 0
    /\ ~AtCapacity
    /\ \E p \in freePages : page' = [page EXCEPT ![t] = p]
    /\ activePages' = activePages + 1
    /\ hist' = [hist EXCEPT ![t].gets = @ + 1]
    /\ pc' = [pc EXCEPT ![t] = "navigate"]
    /\ UNCHANGED <<maxPageCount, smu, freePages, pagesCreated, desc,
                   ctxDone, data, todo, cur, elems, texts>>
    /\ UNCHANGED <<poolSide, scrapeRet, execRet, panicked>>

\* getPage: r.pagePool.Get() hands out a pooled page; r.activePages++.
GetPagePooled(t) ==
    /\ Running
    /\ pc[t] = "getPage"
    /\ smu = 0
    /\ ~AtCapacity
    /\ \E p \in freePages :
         /\ freePages' = freePages \ {p}
         /\ page' = [page EXCEPT ![t] = p]
    /\ activePages' = activePages + 1
    /\ hist' = [hist EXCEPT ![t].gets = @ + 1]
    /\ pc' = [pc EXCEPT ![t] = "navigate"]
    /\ UNCHANGED <<maxPageCount, smu, pagesCreated, desc,
                   ctxDone, data, todo, cur, elems, texts>>
    /\ UNCHANGED <<poolSide, scrapeRet, execRet, panicked>>

\* getPage: r.pagePool.Get() calls New, stealth.Page makes a page;
\* r.activePages++.
GetPageNew(t) ==
    /\ Running
    /\ pc[t] = "getPage"
    /\ smu = 0
    /\ ~AtCapacity
    /\ pagesCreated < MaxPageIds
    /\ pagesCreated' = pagesCreated + 1
    /\ page' = [page EXCEPT ![t] = pagesCreated + 1]
    /\ activePages' = activePages + 1
    /\ hist' = [hist EXCEPT ![t].gets = @ + 1]
    /\ pc' = [pc EXCEPT ![t] = "navigate"]
    /\ UNCHANGED <<maxPageCount, smu, freePages, desc,
                   ctxDone, data, todo, cur, elems, texts>>
    /\ UNCHANGED <<poolSide, scrapeRet, execRet, panicked>>

\* A failed pagePool.Get() that still counts the page as active.
GetPageFailedCounts(t) ==
    /\ Running
    /\ pc[t] = "getPage"
    /\ smu = 0
    /\ ~AtCapacity
    /\ Return(t, NilResult, ErrPool, "returned")
    /\ activePages' = activePages + 1
    /\ UNCHANGED <<maxPageCount, smu, freePages, pagesCreated, desc,
                   ctxDone, page, data, todo, cur, elems, texts, hist>>
    /\ UNCHANGED <<poolSide, execRet, panicked>>

\* getPage: New fails and returns nil: "failed to get page from pool".
GetPageFailed(t) ==
    /\ Running
    /\ pc[t] = "getPage"
    /\ smu = 0
    /\ ~AtCapacity
    /\ Return(t, NilResult, ErrPool, "returned")
    /\ UNCHANGED <<maxPageCount, activePages, smu, freePages, pagesCreated, desc,
                   ctxDone, page, data, todo, cur, elems, texts, hist>>
    /\ UNCHANGED <<poolSide, execRet, panicked>>

\* A Navigate whose failure returns without the deferred releasePage.
NavigateLeaks(t) ==
    /\ Running
    /\ pc[t] = "navigate"
    /\ \/ /\ ctxDone[t]
          /\ Return(t, NilResult, ErrCtx, "returned")
          /\ Observe(t)
       \/ /\ ~ctxDone[t]
          /\ Return(t, NilResult, ErrNavigate, "returned")
          /\ UNCHANGED hist
       \/ /\ ~ctxDone[t]
          /\ pc' = [pc EXCEPT ![t] = "waitLoad"]
          /\ UNCHANGED <<scrapeRet, hist>>
    /\ UNCHANGED <<maxPageCount, activePages, smu, freePages, pagesCreated, desc,
                   ctxDone, page, data, todo, cur, elems, texts>>
    /\ UNCHANGED <<poolSide, execRet, panicked>>

\* page.Context(navCtx).Navigate(task.URL): fails when the context is done,
\* and may fail otherwise; a failure is returned.
Navigate(t) ==
    /\ Running
    /\ pc[t] = "navigate"
    /\ \/ /\ ctxDone[t]
          /\ Return(t, NilResult, ErrCtx, "release")
          /\ Observe(t)
       \/ /\ ~ctxDone[t]
          /\ Return(t, NilResult, ErrNavigate, "release")
          /\ UNCHANGED hist
       \/ /\ ~ctxDone[t]
          /\ pc' = [pc EXCEPT ![t] = "waitLoad"]
          /\ UNCHANGED <<scrapeRet, hist>>
    /\ UNCHANGED <<maxPageCount, activePages, smu, freePages, pagesCreated, desc,
                   ctxDone, page, data, todo, cur, elems, texts>>
    /\ UNCHANGED <<poolSide, execRet, panicked>>

\* page.Context(ctx).WaitLoad(), then data := make(map[string]string) and
\* the range over task.Selectors begins.
WaitLoad(t) ==
    /\ Running
    /\ pc[t] = "waitLoad"
    /\ \/ /\ ctxDone[t]
          /\ Return(t, NilResult, ErrCtx, "release")
          /\ Observe(t)
          /\ UNCHANGED <<data, todo>>
       \/ /\ ~ctxDone[t]
          /\ Return(t, NilResult, ErrWaitLoad, "release")
          /\ UNCHANGED <<hist, data, todo>>
       \/ /\ ~ctxDone[t]
          /\ pc' = [pc EXCEPT ![t] = "fields"]
          /\ data' = [data EXCEPT ![t] = {}]
          /\ todo' = [todo EXCEPT ![t] = Keys(desc[t])]
          /\ UNCHANGED <<scrapeRet, hist>>
    /\ UNCHANGED <<maxPageCount, activePages, smu, freePages, pagesCreated, desc,
                   ctxDone, page, cur, elems, texts>>
    /\ UNCHANGED <<poolSide, execRet, panicked>>

\* The range is over: result := NewScrapingResult(...); return result, nil.
ScrapeFinish(t) ==
    /\ Running
    /\ pc[t] = "fields"
    /\ todo[t] = {}
    /\ Return(t, NewScrapingResult(data[t]), NoErr, "release")
    /\ UNCHANGED <<maxPageCount, activePages, smu, freePages, pagesCreated, desc,
                   ctxDone, page, data, todo, cur, elems, texts, hist>>
    /\ UNCHANGED <<poolSide, execRet, panicked>>

\* An iteration of the range finds ctx.Done(): return the result built so
\* far and ctx.Err().
FieldCancelled(t) ==
    /\ Running
    /\ pc[t] = "fields"
    /\ todo[t] # {}
    /\ ctxDone[t]
    /\ Return(t, NewScrapingResult(data[t]), ErrCtx, "release")
    /\ Observe(t)
    /\ UNCHANGED <<maxPageCount, activePages, smu, freePages, pagesCreated, desc,
                   ctxDone, page, data, todo, cur, elems, texts>>
    /\ UNCHANGED <<poolSide, execRet, panicked>>

\* An iteration of the range, on any key not yet visited (Go ranges over a
\* map in no fixed order): the empty selector gives data[key] = ""; any
\* other selector is queried next.
FieldNext(t) ==
    /\ Running
    /\ pc[t] = "fields"
    /\ ~ctxDone[t]
    /\ \E key \in todo[t] :
         /\ todo' = [todo EXCEPT ![t] = @ \ {key}]
         /\ IF Selector(t, key) = ""
            THEN /\ data' = [data EXCEPT ![t] = SetData(@, key, <<>>)]
                 /\ UNCHANGED <<pc, cur>>
            ELSE /\ cur' = [cur EXCEPT ![t] = key]
                 /\ pc' = [pc EXCEPT ![t] = "query"]
                 /\ UNCHANGED data
    /\ UNCHANGED <<maxPageCount, activePages, smu, freePages, pagesCreated, desc,
                   ctxDone, page, elems, texts, hist>>
    /\ UNCHANGED <<poolSide, scrapeRet, execRet, panicked>>

\* page.Context(elemCtx).Elements(selector): an error (always, when the
\* context is done) or no element gives data[key] = "" and the next key.
QueryNothing(t) ==
    /\ Running
    /\ pc[t] = "query"
    /\ data' = [data EXCEPT ![t] = SetData(@, cur[t], <<>>)]
    /\ pc' = [pc EXCEPT ![t] = "fields"]
    /\ IF ctxDone[t] THEN Observe(t) ELSE UNCHANGED hist
    /\ UNCHANGED <<maxPageCount, activePages, smu, freePages, pagesCreated, desc,
                   ctxDone, page, todo, cur, elems, texts>>
    /\ UNCHANGED <<poolSide, scrapeRet, execRet, panicked>>

\* Elements(selector) returns the matched elements; var texts []string.
QueryElements(t) ==
    /\ Running
    /\ pc[t] = "query"
    /\ ~ctxDone[t]
    /\ PageElements(Selector(t, cur[t])) # <<>>
    /\ elems' = [elems EXCEPT ![t] = PageElements(Selector(t, cur[t]))]
    /\ texts' = [texts EXCEPT ![t] = <<>>]
    /\ pc' = [pc EXCEPT ![t] = "elems"]
    /\ UNCHANGED <<maxPageCount, activePages, smu, freePages, pagesCreated, desc,
                   ctxDone, page, data, todo, cur, hist>>
    /\ UNCHANGED <<poolSide, scrapeRet, execRet, panicked>>

\* The element loop is over: data[key] = strings.Join(texts, "\n").
ElementsDone(t) ==
    /\ Running
    /\ pc[t] = "elems"
    /\ elems[t] = <<>>
    /\ data' = [data EXCEPT ![t] = SetData(@, cur[t], Join(texts[t]))]
    /\ texts' = [texts EXCEPT ![t] = <<>>]
    /\ pc' = [pc EXCEPT ![t] = "fields"]
    /\ UNCHANGED <<maxPageCount, activePages, smu, freePages, pagesCreated, desc,
                   ctxDone, page, todo, cur, elems, hist>>
    /\ UNCHANGED <<poolSide, scrapeRet, execRet, panicked>>

\* An iteration of the element loop: on ctx.Done() return the result built
\* so far and ctx.Err(), else go on to the element's text.
ElementNext(t) ==
    /\ Running
    /\ pc[t] = "elems"
    /\ elems[t] # <<>>
    /\ IF ctxDone[t]
       THEN /\ Return(t, NewScrapingResult(data[t]), ErrCtx, "release")
            /\ Observe(t)
            /\ elems' = [elems EXCEPT ![t] = <<>>]
            /\ texts' = [texts EXCEPT ![t] = <<>>]
       ELSE /\ pc' = [pc EXCEPT ![t] = "text"]
            /\ UNCHANGED <<scrapeRet, hist, elems, texts>>
    /\ UNCHANGED <<maxPageCount, activePages, smu, freePages, pagesCreated, desc,
                   ctxDone, page, data, todo, cur>>
    /\ UNCHANGED <<poolSide, execRet, panicked>>

\* element.Context(textCtx).Text(): an error (always, when the context is
\* done) skips the element, else texts = append(texts, text).
ElementText_(t) ==
    /\ Running
    /\ pc[t] = "text"
    /\ \/ /\ ctxDone[t]
          /\ Observe(t)
          /\ UNCHANGED texts
       \/ /\ ~ctxDone[t]
          /\ UNCHANGED <<texts, hist>>
       \/ /\ ~ctxDone[t]
          /\ texts' = [texts EXCEPT ![t] = Append(@, ElementText(Head(elems[t])))]
          /\ UNCHANGED hist
    /\ elems' = [elems EXCEPT ![t] = Tail(@)]
    /\ pc' = [pc EXCEPT ![t] = "elems"]
    /\ UNCHANGED <<maxPageCount, activePages, smu, freePages, pagesCreated, desc,
                   ctxDone, page, data, todo, cur>>
    /\ UNCHANGED <<poolSide, scrapeRet, execRet, panicked>>

\* The deferred releasePage: r.mu.Lock(), then page.MustNavigate(
\* "about:blank") runs with the mutex held.
ReleaseLock(t) ==
    /\ Running
    /\ pc[t] = "release"
    /\ smu = 0
    /\ smu' = t
    /\ pc' = [pc EXCEPT ![t] = "resetting"]
    /\ UNCHANGED <<maxPageCount, activePages, freePages, pagesCreated, desc,
                   ctxDone, page, data, todo, cur, elems, texts, hist>>
    /\ UNCHANGED <<poolSide, scrapeRet, execRet, panicked>>

\* releasePage's end: r.pagePool.Put(page); r.activePages--; unlock; Scrape
\* has returned.
ReleaseFinish(t) ==
    /\ Running
    /\ pc[t] = "resetting"
    /\ freePages' = freePages \cup {page[t]}
    /\ activePages' = activePages - 1
    /\ smu' = 0
    /\ page' = [page EXCEPT ![t] = 0]
    /\ hist' = [hist EXCEPT ![t].releases = @ + 1]
    /\ pc' = [pc EXCEPT ![t] = "returned"]
    /\ UNCHANGED <<maxPageCount, pagesCreated, desc,
                   ctxDone, data, todo, cur, elems, texts>>
    /\ UNCHANGED <<poolSide, scrapeRet, execRet, panicked>>

\* page.MustNavigate("about:blank") fails: a Must method panics.
ReleasePanics(t) ==
    /\ Running
    /\ pc[t] = "resetting"
    /\ panicked' = "MustNavigate"
    /\ UNCHANGED scrVars
    /\ UNCHANGED <<poolSide, scrapeRet, execRet>>

\* Execute's end: "if err != nil { return nil, err }; return res, nil".
ExecuteReturn(t) ==
    /\ Running
    /\ pc[t] = "returned"
    /\ execRet' = [execRet EXCEPT ![t] = Execute(scrapeRet[t])]
    /\ pc' = [pc EXCEPT ![t] = "done"]
    /\ UNCHANGED <<maxPageCount, activePages, smu, freePages, pagesCreated, desc,
                   ctxDone, page, data, todo, cur, elems, texts, hist>>
    /\ UNCHANGED <<poolSide, scrapeRet, panicked>>

\* The context Execute passes to Scrape becomes done: the 30 s timeout, the
\* task's own context or the run's context.
CtxExpire(t) ==
    /\ Running
    /\ pc[t] \notin {"returned", "done"}
    /\ ~ctxDone[t]
    /\ ctxDone' = [ctxDone EXCEPT ![t] = TRUE]
    /\ UNCHANGED <<maxPageCount, activePages, smu, freePages, pagesCreated, desc,
                   pc, page, data, todo, cur, elems, texts, hist>>
    /\ UNCHANGED <<poolSide, scrapeRet, execRet, panicked>>

InitScraper ==
    /\ NewRodScraper
    /\ NewMongoScraperRepo
    /\ maxPageCount \in 1..MaxPages
    /\ desc = [t \in Tasks |-> TaskSelectors(t)]
    /\ numWorkers = MaxWorkers
    /\ capacity = MaxQueue
    /\ started = FALSE
    /\ mu = "free"
    /\ pctx = 0
    /\ cancelled = {}
    /\ tasks = <<>>
    /\ tasksClosed = FALSE
    /\ results = <<>>
    /\ resultsClosed = FALSE
    /\ wg = 0
    /\ runCancelled = FALSE
    /\ panicked = "no"
    /\ idle = 0
    /\ working = [t \in Tasks |-> "none"]
    /\ exited = 0
    /\ startPc = "idle"
    /\ spawned = 0
    /\ startCalls = 0
    /\ startErrs = 0
    /\ spc = [s \in Stoppers |-> "idle"]
    /\ apc = [t \in Tasks |-> "idle"]
    /\ scrapeRet = [t \in Tasks |-> NotReturned]
    /\ execRet = [t \in Tasks |-> NotReturned]
    /\ onErrors = [t \in Tasks |-> 0]
    /\ sent = [t \in Tasks |-> 0]
    /\ dropped = {}
    /\ consumed = {}
    /\ sawClosed = FALSE
    /\ closes = [tasks |-> 0, results |-> 0]
    /\ stopRaced = FALSE

NextScraper ==
    \/ \E t \in Tasks : ScrapeEnter(t)
    \/ \E t \in Tasks : GetPageRefused(t)
    \/ \E t \in Tasks : GetPagePooled(t)
    \/ \E t \in Tasks : GetPageNew(t)
    \/ \E t \in Tasks : GetPageFailed(t)
    \/ \E t \in Tasks : Navigate(t)
    \/ \E t \in Tasks : WaitLoad(t)
    \/ \E t \in Tasks : ScrapeFinish(t)
    \/ \E t \in Tasks : FieldCancelled(t)
    \/ \E t \in Tasks : FieldNext(t)
    \/ \E t \in Tasks : QueryNothing(t)
    \/ \E t \in Tasks : QueryElements(t)
    \/ \E t \in Tasks : ElementsDone(t)
    \/ \E t \in Tasks : ElementNext(t)
    \/ \E t \in Tasks : ElementText_(t)
    \/ \E t \in Tasks : ReleaseLock(t)
    \/ \E t \in Tasks : ReleaseFinish(t)
    \/ \E t \in Tasks : ReleasePanics(t)
    \/ \E t \in Tasks : ExecuteReturn(t)
    \/ \E t \in Tasks : CtxExpire(t)

SpecScraper == InitScraper /\ [][NextScraper]_vars

\* ============================================================= repository
\* What the repository's steps leave alone: the pool and the scraper.
storeSide == <<numWorkers, capacity, started, mu, pctx, cancelled, runCancelled,
               tasks, tasksClosed, results, resultsClosed, wg, panicked,
               idle, working, exited, startPc, spawned, startCalls, startErrs,
               spc, apc, scrapeRet, execRet, onErrors, sent, dropped, consumed,
               sawClosed, closes, stopRaced, maxPageCount, activePages, smu,
               freePages, pagesCreated, desc, ctxDone, pc, page, data, todo,
               cur, elems, texts, hist>>

\* filter := bson.M{"url": result.URL, "type": result.Type}.
Filter(d, arg) == d.url = arg.url /\ d.type = arg.type

\* The unique index on (type, url): an insert of a second document with the
\* key of a stored one is a duplicate-key error.
DuplicateKey(arg) == \E d \in docs : d.type = arg.type /\ d.url = arg.url

\* UpdateOne's "$set" of name, data, updated_at, metadata on a document.
UpdateSetWithoutData(d, arg, now) ==
    [d EXCEPT !.name = arg.name, !.updated = now, !.meta = arg.meta]
UpdateSet(d, arg, now) ==
    [d EXCEPT !.name = arg.name, !.data = arg.data, !.updated = now,
              !.meta = arg.meta]

\* SaveResult(ctx, result), entered: FindOne(timeout, filter).Decode(
\* &existing) finds the document, or ErrNoDocuments, or fails otherwise
\* (return "", err).
SaveFindOne ==
    /\ svPc = "idle"
    /\ saves < MaxSaves
    /\ \E arg \in SaveArgs :
         /\ svArg' = arg
         /\ \/ \E d \in docs :
                 /\ Filter(d, arg)
                 /\ svExisting' = d
                 /\ svPc' = "update"
                 /\ UNCHANGED <<saves, svRet>>
            \/ /\ ~\E d \in docs : Filter(d, arg)
               /\ svPc' = "insert"
               /\ UNCHANGED <<saves, svRet, svExisting>>
            \/ /\ svRet' = SaveReturn(0, ErrSave)
               /\ saves' = saves + 1
               /\ UNCHANGED <<svPc, svExisting>>
    /\ UNCHANGED <<docs, clock, nextId>>
    /\ UNCHANGED storeSide

\* The document exists: result.ID, result.CreatedAt = existing's;
\* result.UpdatedAt = time.Now(); UpdateOne(_id = existing.ID, $set);
\* return existing.ID.Hex(), or "", err when UpdateOne fails.
SaveUpdateOne ==
    /\ svPc = "update"
    /\ clock' = clock + 1
    /\ \/ /\ docs' = {IF d.id = svExisting.id THEN UpdateSet(d, svArg, clock)
                                             ELSE d : d \in docs}
          /\ svRet' = SaveReturn(svExisting.id, NoErr)
       \/ /\ svRet' = SaveReturn(0, ErrSave)
          /\ UNCHANGED docs
    /\ saves' = saves + 1
    /\ svPc' = "idle"
    /\ svExisting' = NoDoc
    /\ UNCHANGED <<nextId, svArg>>
    /\ UNCHANGED storeSide

\* No document: result.ID = primitive.NewObjectID(); CreatedAt = time.Now();
\* UpdatedAt = CreatedAt; InsertOne(result); return result.ID.Hex(), or
\* "", err when InsertOne fails.
SaveInsertOne ==
    /\ svPc = "insert"
    /\ nextId' = nextId + 1
    /\ clock' = clock + 1
    /\ \/ /\ ~DuplicateKey(svArg)
          /\ docs' = docs \cup
                {[id |-> nextId + 1, url |-> svArg.url, type |-> svArg.type,
                  name |-> svArg.name, data |-> svArg.data, meta |-> svArg.meta,
                  created |-> clock, updated |-> clock]}
          /\ svRet' = SaveReturn(nextId + 1, NoErr)
       \/ /\ svRet' = SaveReturn(0, ErrSave)
          /\ UNCHANGED docs
    /\ saves' = saves + 1
    /\ svPc' = "idle"
    /\ UNCHANGED <<svArg, svExisting>>
    /\ UNCHANGED storeSide

InitStore ==
    /\ InitScraper
    /\ maxPageCount = MaxPages

NextStore ==
    \/ SaveFindOne
    \/ SaveUpdateOne
    \/ SaveInsertOne

SpecStore == InitStore /\ [][NextStore]_vars

\* ================================================================= claims
Range(q) == {q[i] : i \in DOMAIN q}
LiveWorkers == idle + Cardinality({t \in Tasks : working[t] # "none"})
PastStopGuard == {s \in Stoppers :
                    spc[s] \in {"cancel", "closeTasks", "wait", "closeResults", "returned"}}
HeldPages == {t \in Tasks : page[t] # 0}
ScrapeReturned(t) == scrapeRet[t] # NotReturned
ExecuteReturned(t) == execRet[t] # NotReturned

\* C1: under every interleaving of getPage and releasePage, activePages is
\* the number of pages acquired and not yet released, and it is at most
\* maxPageCount.
C1_ActiveWithinCeiling ==
    /\ activePages = Cardinality(HeldPages)
    /\ activePages <= maxPageCount

\* C1 witness: a getPage met the pool at its ceiling and was refused.
C1_Witness ==
    /\ activePages = maxPageCount
    /\ \E t \in Tasks : scrapeRet[t].err = ErrCapacity

\* C2: when Stop returns (one Start, the run not cancelled, no AddTask call
\* in progress when Stop was called, the queue large enough for the tasks
\* accepted), each accepted task has had its result sent on results or
\* OnError called.
C2_StopLeavesNoAcceptedTask ==
    \A s \in Stoppers :
        ( /\ spc[s] = "returned"
          /\ startCalls = 1
          /\ ~runCancelled
          /\ ~stopRaced
          /\ Cardinality(Accepted) <= capacity )
        => \A t \in Accepted : sent[t] >= 1 \/ onErrors[t] >= 1

\* C3: once the worker is through with a task whose Scrape returned a
\* partial result with an error, that partial result is in the results
\* channel or with the consumer.
C3_PartialResultForwarded ==
    \A t \in Tasks :
        ( /\ ExecuteReturned(t)
          /\ scrapeRet[t].err # NoErr
          /\ ~scrapeRet[t].res.isNil
          /\ working[t] = "none" )
        => \E r \in consumed \cup Range(results) :
              r.task = t /\ r.res = scrapeRet[t].res

\* C4: Execute returns exactly the (result, error) pair Scrape returned.
C4_ExecuteReturnsScrapePair ==
    \A t \in Tasks : ExecuteReturned(t) => execRet[t] = scrapeRet[t]

\* C5: when an operation of a Scrape call met the cancellation of its
\* context (a context check, Navigate, WaitLoad, Elements or Text run on
\* the done context), the error Scrape returns is not nil.
C5_CancellationGivesError ==
    \A t \in Tasks :
        (ScrapeReturned(t) /\ hist[t].observed) => scrapeRet[t].err # NoErr

\* C6: once a Stop call has stopped the running pool, the pool is never
\* running again.
C6_NoRestartAfterStop ==
    PastStopGuard # {} => ~started

\* C7: of the Stop calls on one pool only one gets past the started guard,
\* so each channel is closed at most once and no close panics.
C7_SecondStopIsNoop ==
    /\ Cardinality(PastStopGuard) <= 1
    /\ closes.tasks <= 1
    /\ closes.results <= 1
    /\ panicked \notin {"close of closed channel: tasks",
                        "close of closed channel: results"}

\* C8: a step taken while the pool is running launches no worker and does
\* not replace the context pair; a Start call made then returns the error
\* and leaves the pool as it was, started still true.
C8_StartOnRunningPool ==
    [][started =>
         /\ idle' + exited' + Cardinality({t \in Tasks : working'[t] # "none"})
              = idle + exited + Cardinality({t \in Tasks : working[t] # "none"})
         /\ pctx' = pctx
         /\ startCalls' = startCalls
         /\ startPc' = "idle"
         /\ (startErrs' # startErrs =>
               /\ startErrs' = startErrs + 1
               /\ started'
               /\ UNCHANGED <<poolVars, idle, working, exited, cancelled, runCancelled>>)]_vars

\* C8 witness: a Start call on the running pool has returned the error.
C8_Witness == started /\ startErrs >= 1 /\ LiveWorkers = numWorkers

\* C9: results is closed at most once, while it is closed no worker is
\* running, and no worker sends on it once closed.
C9_ResultsClosedAfterWorkers ==
    /\ closes.results <= 1
    /\ resultsClosed => LiveWorkers = 0
    /\ panicked # "send on closed channel: results"

\* C10 as claimed: the worker never gives up the result of a successful
\* Execute.
C10_ResultNeverDiscarded == dropped = {}

\* C10 as amended: a worker holding the result of a successful Execute
\* leaves its send only by sending the result or with the pool's context
\* done; a full results buffer alone never makes it give the result up.
C10_DiscardedOnlyOnCancel ==
    [][\A t \in Tasks :
         (working[t] = "send" /\ working'[t] # "send") =>
            \/ /\ sent'[t] = sent[t] + 1
               /\ results' = Append(results, [task |-> t, res |-> execRet[t].res])
            \/ /\ CtxDone(pctx)
               /\ t \in dropped']_vars

\* C10 witness: the result of a successful Execute was given up.
C10_Witness ==
    \E t \in dropped : execRet[t].err = NoErr /\ sent[t] = 0 /\ CtxDone(pctx)

\* C11: an AddTask call at its select leaves it only by enqueueing its task
\* into a queue that had room (nil) or, the pool's context being done, with
\* the error and the queue untouched; it never panics; and once the pool's
\* context is done every AddTask call at its select returns.
C11_AddTaskBlocksUntilSlotOrCancel ==
    /\ [][\A t \in Tasks :
            apc[t] = "select" =>
              /\ panicked' # "send on closed channel: tasks"
              /\ apc'[t] = "nil" =>
                   Len(tasks) < capacity /\ tasks' = Append(tasks, t)
              /\ apc'[t] = "err" => CtxDone(pctx) /\ tasks' = tasks]_vars
    /\ \A t \in Tasks :
         (apc[t] = "select" /\ CtxDone(pctx)) ~> (apc[t] \in {"nil", "err"})

\* A Stop call has issued its p.cancel().
StopBegun ==
    \E s \in Stoppers : spc[s] \in {"closeTasks", "wait", "closeResults", "returned"}

\* C12: once a Stop call has issued its cancel, no worker takes a further
\* task from the queue to execute it: the tasks being executed from then on
\* are those a worker already had.
C12_NoDequeueAfterStopBegan ==
    [][StopBegun =>
         \A t \in Tasks : working'[t] = "exec" => working[t] = "exec"]_vars

\* The tasks of which an item has been sent on the results channel.
Produced == {t \in Tasks : sent[t] >= 1}

\* C13: at most one item is sent on results per task, and only for a task
\* whose Execute was run; a task whose AddTask returned an error is never
\* in the queue, never executed and never produces an item; so the items
\* sent are at most as many as the tasks AddTask accepted.
C13_AtMostOneItemPerAcceptedTask ==
    /\ \A t \in Tasks : sent[t] <= 1
    /\ \A t \in Produced : ExecuteReturned(t)
    /\ \A t \in Tasks :
         apc[t] = "err" =>
           /\ t \notin Range(tasks)
           /\ working[t] = "none"
           /\ ~ExecuteReturned(t)
           /\ t \notin Produced
    /\ Cardinality(Produced) <= Cardinality(Accepted)

\* C13 witness: one task was refused by AddTask and another, accepted, had
\* its item sent.
C13_Witness ==
    \E t, u \in Tasks : apc[t] = "err" /\ apc[u] = "nil" /\ sent[u] = 1

\* C14: for each task a worker executed, OnError was called once if Execute
\* returned an error and not at all if it returned nil; and the step in
\* which a worker gets an error from Execute puts that worker back at its
\* first select: no worker exits, the WaitGroup keeps its count, nothing
\* panics and the pool's fields are untouched.
C14_OnErrorOncePerFailure ==
    /\ [](\A t \in Tasks :
            onErrors[t] = IF ExecuteReturned(t) /\ execRet[t].err # NoErr
                          THEN 1 ELSE 0)
    /\ [][\A t \in Tasks :
            (working[t] = "exec" /\ execRet'[t].err \notin {NoErr, "not returned"}) =>
              /\ working'[t] = "none"
              /\ idle' = idle + 1
              /\ LiveWorkers' = LiveWorkers
              /\ UNCHANGED <<exited, panicked, poolVars>>]_vars

\* C14 witness: a task failed, OnError was called for it, and every worker
\* the pool started is still alive.
C14_Witness ==
    \E t \in Tasks :
        /\ execRet[t].err \notin {NoErr, "not returned"}
        /\ onErrors[t] = 1
        /\ started
        /\ LiveWorkers = numWorkers

\* C15: a Scrape call acquires at most one page and releases it at most
\* once, and when the call has returned, by whichever return statement, the
\* page it acquired has been released exactly once: the call holds no page
\* and the active count counts only the pages of the calls still running.
C15_ReleasedOncePerAcquire ==
    /\ \A t \in Tasks :
         /\ hist[t].releases <= hist[t].gets
         /\ hist[t].gets <= 1
         /\ pc[t] \in {"returned", "done"} =>
              hist[t].releases = hist[t].gets /\ page[t] = 0
    /\ activePages =
         Cardinality({t \in Tasks : hist[t].gets = 1 /\ hist[t].releases = 0})

\* C15 witness: one call returned on a navigation failure and another on
\* completion, each after acquiring a page, and the active count is back
\* at zero.
C15_Witness ==
    \E t, u \in Tasks :
        /\ pc[t] \in {"returned", "done"} /\ scrapeRet[t].err = ErrNavigate
        /\ pc[u] \in {"returned", "done"} /\ scrapeRet[u].err = NoErr
        /\ hist[t].releases = 1 /\ hist[u].releases = 1
        /\ activePages = 0

\* C16: a getPage call made while activePages equals maxPageCount returns
\* the capacity error, and its step leaves activePages, the pool's free
\* pages, the pages created and the pages held as they were.
C16_RefusedAtCeiling ==
    [][\A t \in Tasks :
         (pc[t] = "getPage" /\ pc'[t] # "getPage" /\ activePages = maxPageCount) =>
           /\ scrapeRet'[t] = [res |-> NilResult, err |-> ErrCapacity]
           /\ pc'[t] = "returned"
           /\ UNCHANGED <<activePages, freePages, pagesCreated, page>>]_vars

\* C16 witness: a call was refused with the capacity error and holds no
\* page while another call's page fills the ceiling.
C16_Witness ==
    \E t, u \in Tasks :
        /\ t # u
        /\ scrapeRet[t].err = ErrCapacity /\ page[t] = 0 /\ hist[t].gets = 0
        /\ page[u] # 0
        /\ activePages = maxPageCount

\* C17: a getPage call never has to wait for another call: whenever a call
\* is about to acquire, r.mu is free, so that it gets its page or its
\* error at once.
C17_AcquireNeverWaits ==
    \A t \in Tasks : pc[t] = "getPage" => smu = 0

\* C18: a Scrape call entered with its context already done returns (nil,
\* ErrContextCancelled) in that step, before any getPage: activePages, the
\* free pages, the pages created and the pages held are unchanged, and the
\* call goes through no navigation and no query.
C18_CancelledBeforeAcquire ==
    [][\A t \in Tasks :
         (pc[t] = "idle" /\ ctxDone[t] /\ pc'[t] # "idle") =>
           /\ scrapeRet'[t] = [res |-> NilResult, err |-> ErrContextCancelled]
           /\ pc'[t] = "returned"
           /\ UNCHANGED <<activePages, freePages, pagesCreated, page, smu, data>>]_vars

\* C18 witness: a call returned ErrContextCancelled without ever having
\* acquired a page.
C18_Witness ==
    \E t \in Tasks :
        /\ scrapeRet[t].err = ErrContextCancelled
        /\ pc[t] \in {"returned", "done"}
        /\ ctxDone[t]
        /\ hist[t].gets = 0

\* The keys of task t's descriptor whose iteration of the range is over.
Processed(t) == Keys(desc[t]) \ todo[t]

\* C19: when the check at the head of an iteration of the field loop finds
\* the context done, Scrape stops there and returns ctx.Err() with a
\* non-nil result whose data are exactly the entries written so far: its
\* keys are the keys already processed, each with the value its iteration
\* gave it, and no key still to be visited is in it.
C19_PartialResultAtFieldCheck ==
    [][\A t \in Tasks :
         (pc[t] = "fields" /\ todo[t] # {} /\ ctxDone[t] /\ pc'[t] # "fields") =>
           /\ scrapeRet'[t].err = ErrCtx
           /\ ~scrapeRet'[t].res.isNil
           /\ scrapeRet'[t].res.data = data[t]
           /\ Keys(scrapeRet'[t].res.data) = Processed(t)
           /\ \A key \in todo[t] : key \notin Keys(scrapeRet'[t].res.data)
           /\ pc'[t] = "release"
           /\ UNCHANGED <<data, todo>>]_vars

\* C19 witness: a call returned from the field check with some but not all
\* of its fields, the one it has carrying extracted text.
C19_Witness ==
    \E t \in Tasks :
        /\ scrapeRet[t].err = ErrCtx
        /\ ~scrapeRet[t].res.isNil
        /\ todo[t] # {}
        /\ cur[t] \in Processed(t)
        /\ <<"title", <<"Hello">>>> \in scrapeRet[t].res.data
        /\ Keys(scrapeRet[t].res.data) = {"title"}

\* The Stop call s is past its started check and has not returned.
Stopping(s) == spc[s] \in {"cancel", "closeTasks", "wait", "closeResults"}

\* C20: with the run's context cancelled, a Stop call that is stopping the
\* pool eventually returns with the results channel closed, the workers'
\* Execute calls returning, nobody being obliged to read the results
\* channel or to complete an AddTask by other means than its select.
C20_StopTerminatesAfterCancel ==
    \A s \in Stoppers :
        (runCancelled /\ Stopping(s)) ~> (spc[s] = "returned" /\ resultsClosed)

\* C21: an AddTask call that finds the pool not started (never started, or
\* stopped) returns the error in that step and changes nothing else: the
\* pool's fields, the workers and the record of every task are as before;
\* and a task whose AddTask returned an error is not in the queue, not
\* with a worker and never executed.
C21_AddTaskOnStoppedPoolRefused ==
    /\ [][\A t \in Tasks :
            (apc[t] = "idle" /\ ~started /\ apc'[t] # "idle") =>
              /\ apc'[t] = "err"
              /\ \A u \in Tasks \ {t} : apc'[u] = apc[u]
              /\ UNCHANGED <<poolVars, bookVars, idle, working, exited,
                             panicked, runCancelled, closes>>]_vars
    /\ [](\A t \in Tasks :
            apc[t] = "err" =>
              /\ t \notin Range(tasks)
              /\ working[t] = "none"
              /\ ~ExecuteReturned(t)
              /\ onErrors[t] = 0)

\* C21 witness: after a Stop call returned, with the pool not running, the
\* AddTask calls made were all refused at the started check (none ever
\* reached its select) and the queue is empty.
C21_Witness ==
    /\ ~started
    /\ \E s \in Stoppers : spc[s] = "returned"
    /\ \E t \in Tasks : apc[t] = "err"
    /\ \A t \in Tasks : apc[t] \in {"idle", "err"}
    /\ tasks = <<>>
    /\ startCalls = 1

\* The stored document with the (URL, Type) key of a result, if any.
Stored(ds, arg) == {d \in ds : d.url = arg.url /\ d.type = arg.type}

\* C22: the collection holds at most one document per (URL, Type); a
\* document once stored keeps its id, key and creation time in every step;
\* and a SaveResult call that returns an id leaves exactly one document
\* with its result's key, carrying the result's name, data and metadata and
\* the time of this write as update time: a new one (fresh id, created at
\* this write) when the key had none, else the one that was there, with
\* every other document untouched.
C22_OneDocumentPerKey ==
    /\ [](\A d, e \in docs :
            (d.id = e.id \/ (d.url = e.url /\ d.type = e.type)) => d = e)
    /\ [][/\ \A d \in docs :
               \E e \in docs' : /\ e.id = d.id /\ e.created = d.created
                                /\ e.url = d.url /\ e.type = d.type
          /\ (saves' = saves + 1 /\ svRet'.err = NoErr) =>
               \E e \in docs' :
                  /\ Stored(docs', svArg) = {e}
                  /\ e.id = svRet'.id
                  /\ e.name = svArg.name /\ e.data = svArg.data
                  /\ e.meta = svArg.meta
                  /\ e.updated = clock
                  /\ docs' \ {e} = docs \ Stored(docs, svArg)
                  /\ IF Stored(docs, svArg) = {}
                     THEN e.created = clock /\ \A d \in docs : d.id # e.id
                     ELSE \E d \in Stored(docs, svArg) :
                             e.id = d.id /\ e.created = d.created]_vars

\* C22 witness: a key was saved twice, the second save replacing the data
\* of the first, beside a document of another key.
C22_Witness ==
    /\ svPc = "idle"
    /\ svRet.err = NoErr
    /\ Cardinality(docs) = 2
    /\ \E d \in docs :
         /\ d.id = svRet.id
         /\ d.created < d.updated
         /\ d.data = svArg.data
         /\ d.id = 1

\* The texts, in match order, of the elements of es whose index is in S.
RECURSIVE TextsOf(_, _, _)
TextsOf(es, S, i) ==
    IF i > Len(es) THEN <<>>
    ELSE (IF i \in S THEN <<ElementText(es[i])>> ELSE <<>>) \o TextsOf(es, S, i + 1)

\* The texts ts with a newline between each two neighbours.
RECURSIVE NewlineJoined(_)
NewlineJoined(ts) ==
    IF Len(ts) = 0 THEN <<>>
    ELSE IF Len(ts) = 1 THEN ts[1]
    ELSE NewlineJoined(SubSeq(ts, 1, Len(ts) - 1)) \o <<"\n">> \o ts[Len(ts)]

\* The reference values of a field: "" for the empty selector, for a failed
\* query and for no match; else the texts of the matched elements whose
\* extraction succeeded (any subset S of them), in match order, joined by
\* newlines.
FieldValues(selector) ==
    IF selector = "" THEN {<<>>}
    ELSE {<<>>} \cup
         {NewlineJoined(TextsOf(PageElements(selector), S, 1)) :
            S \in SUBSET (1..Len(PageElements(selector)))}

\* C23: a Scrape call that acquired its page, met no cancellation and had
\* no Navigate or WaitLoad failure returns a nil error and a result whose
\* keys are exactly the descriptor's keys, each with a reference value of
\* its selector (so no failed query or text makes it an error); and a key
\* with the empty selector is never queried.
C23_CompleteResultMatchesReference ==
    /\ [](\A t \in Tasks :
            ( /\ pc[t] \in {"returned", "done"}
              /\ hist[t].gets = 1
              /\ ~hist[t].observed
              /\ scrapeRet[t].err \notin {ErrNavigate, ErrWaitLoad} )
            => /\ scrapeRet[t].err = NoErr
               /\ ~scrapeRet[t].res.isNil
               /\ Keys(scrapeRet[t].res.data) = Keys(desc[t])
               /\ \A kv \in scrapeRet[t].res.data :
                    /\ kv[2] \in FieldValues(Selector(t, kv[1]))
                    /\ \A kw \in scrapeRet[t].res.data : kw[1] = kv[1] => kw = kv)
    /\ [][\A t \in Tasks :
            (pc[t] # "query" /\ pc'[t] = "query") => Selector(t, cur'[t]) # ""]_vars

\* C23 witness: a call completed with no cancellation, its price field the
\* two matched texts joined by a newline and its title the one text.
C23_Witness ==
    \E t \in Tasks :
        /\ pc[t] = "done"
        /\ ~hist[t].observed
        /\ scrapeRet[t].err = NoErr
        /\ scrapeRet[t].res.data =
             {<<"title", <<"Hello">>>>, <<"price", <<"9", "\n", "EUR">>>>}

\* The order in which the tasks file lists the keys of task t's Selectors.
FieldOrder(t) ==
    IF t % 2 = 1 THEN <<"title", "price">> ELSE <<"title", "note">>

\* C24: whenever a Scrape call returns a result, complete or partial, the
\* keys present in it are the first n keys of the descriptor's field order,
\* for some n: no later field is present while an earlier one is absent.
C24_KeysArePrefixOfFieldOrder ==
    \A t \in Tasks :
        (ScrapeReturned(t) /\ ~scrapeRet[t].res.isNil) =>
            \E n \in 0..Len(FieldOrder(t)) :
                Keys(scrapeRet[t].res.data) = {FieldOrder(t)[i] : i \in 1..n}

\* C25: no page is held by two Scrape calls at once, and a page a call
\* holds is not among the pool's free pages: between the getPage that
\* handed a page out and its releasePage no other getPage returns it.
C25_PageHeldByOneCall ==
    /\ \A t, u \in Tasks : (t # u /\ page[t] # 0) => page[t] # page[u]
    /\ \A t \in Tasks : page[t] # 0 => page[t] \notin freePages

\* C25 witness: a page that one call released is now held by the other
\* call, taken from the pool.
C25_Witness ==
    \E t, u \in Tasks :
        /\ t # u
        /\ hist[t].releases = 1
        /\ page[u] # 0
        /\ pagesCreated = 1
        /\ hist[u].gets = 1

\* C26: a getPage whose pagePool.Get() yields nil (page creation failed)
\* makes Scrape return the pool error with a nil result in that same step,
\* without another attempt, and leaves activePages, the pool and the
\* number of pages created as they were.
C26_FailedCreationTakesNoSlot ==
    [][\A t \in Tasks :
          (pc[t] = "getPage" /\ scrapeRet'[t] # scrapeRet[t]
              /\ scrapeRet'[t].err = ErrPool) =>
             /\ scrapeRet'[t].res = NilResult
             /\ pc'[t] = "returned"
             /\ activePages' = activePages
             /\ freePages' = freePages
             /\ pagesCreated' = pagesCreated
             /\ hist'[t].gets = hist[t].gets
             /\ page'[t] = 0]_vars

\* C26 witness: with a ceiling of one page, one call has returned the pool
\* error and the other call holds a page it got afterwards or before.
C26_Witness ==
    \E t, u \in Tasks :
        /\ t # u
        /\ ScrapeReturned(t)
        /\ scrapeRet[t].err = ErrPool
        /\ maxPageCount = 1
        /\ page[u] # 0
        /\ activePages = 1

\* C27: no AddTask call sends on the task channel after Stop closed it: the
\* process never panics with a send on the closed task channel, so an
\* AddTask racing with Stop ends by enqueuing its task or returning an error.
C27_AddTaskNeverSendsOnClosedTasks ==
    panicked # "send on closed channel: tasks"

\* C28: a Start that succeeds has launched exactly numWorkers workers when
\* it returns; at every moment the pool has at most numWorkers live worker
\* goroutines; and no Start is adding to the WaitGroup while a Stop call is
\* inside its Wait.
C28_AtMostNumWorkersLive ==
    /\ LiveWorkers <= numWorkers
    /\ ~(startPc = "spawn" /\ \E s \in Stoppers : spc[s] = "wait")
    /\ (startPc = "idle" /\ startCalls > 0) => spawned = numWorkers

\* main's result loop: resultsProcessed counts the results it received.
resultsProcessed == Cardinality(consumed)

\* The exits of main's result loop: the count of received results reached
\* len(tasks), the results channel was seen closed, or ctx is done.
ResultLoopReturns ==
    \/ resultsProcessed >= NumTasks
    \/ sawClosed
    \/ runCancelled

\* Task t is accounted for: its result was received or it went to OnError.
Accounted(t) == (\E r \in consumed : r.task = t) \/ onErrors[t] >= 1

\* C29: once every submitted task is accounted for and at least one of them
\* failed, the driver's result loop is at one of its exits, with no
\* cancellation of the run needed.
C29_ResultLoopEndsWhenAllAccounted ==
    ((\A t \in Tasks : Accounted(t)) /\ (\E t \in Tasks : onErrors[t] >= 1))
        => ResultLoopReturns

====
